---- MODULE Spec2Model ----
(***************************************************************************)
(* Model of onyx/cli.py: the `filter` command (criteria builder, the JSON  *)
(* fragment stitcher, the CSV/TSV renderer), `cli_error`, and the `fields` *)
(* command's recursive `add_fields`.                                       *)
(*                                                                         *)
(* Text is modelled as a sequence of tokens.  Every character the code     *)
(* inspects ("[", "]", "{", "}", ",", newline, "=", ".") is a token of its *)
(* own; a JSON string literal and one indentation unit (four spaces) are   *)
(* single tokens.  The model starts after setup_onyx_api has returned.     *)
(***************************************************************************)
EXTENDS Integers, Sequences, FiniteSets, TLC

VARIABLES cmd, format, field, project, pc, fields, nreq, pulled, written,
          gen_buf, writer, nrec, out, outcome, msg, hint, tree, table

vars == <<cmd, format, field, project, pc, fields, nreq, pulled, written,
          gen_buf, writer, nrec, out, outcome, msg, hint, tree, table>>

(***************************************************************************)
(* Bounds                                                                  *)
(***************************************************************************)
MaxCrit == 2

MaxCritLen == 2

MaxPages == 3

MaxPageRecs == 2

MaxNodes == 4

(***************************************************************************)
(* Generic sequence helpers (Python str / list primitives)                 *)
(***************************************************************************)
SeqsUpTo(S, n) == UNION {[1..k -> S] : k \in 0..n}

RECURSIVE Flatten(_)
Flatten(ss) == IF ss = <<>> THEN <<>> ELSE Head(ss) \o Flatten(Tail(ss))

RECURSIVE Join(_, _)
Join(ss, sep) ==
    IF ss = <<>> THEN <<>>
    ELSE IF Len(ss) = 1 THEN Head(ss)
    ELSE Head(ss) \o sep \o Join(Tail(ss), sep)

StartsWith(s, p) == Len(s) >= Len(p) /\ SubSeq(s, 1, Len(p)) = p

EndsWith(s, p) == Len(s) >= Len(p) /\ SubSeq(s, Len(s) - Len(p) + 1, Len(s)) = p

RemovePrefix(s, p) == IF StartsWith(s, p) THEN SubSeq(s, Len(p) + 1, Len(s)) ELSE s

RemoveSuffix(s, p) == IF EndsWith(s, p) THEN SubSeq(s, 1, Len(s) - Len(p)) ELSE s

(***************************************************************************)
(* Filter criteria builder: lines 321-332                                  *)
(***************************************************************************)
CritChars == {"n", ".", "="}

CritStrings == SeqsUpTo(CritChars, MaxCritLen)

\* str.split(sep): one more part than there are separators.
\* Mutant: split at the first separator only, str.split(sep, 1).
Split_maxsplit(s, sep) ==
    IF \A i \in 1..Len(s) : s[i] # sep THEN <<s>>
    ELSE LET i == CHOOSE i \in 1..Len(s) :
                      s[i] = sep /\ \A j \in 1..(i - 1) : s[j] # sep
         IN  <<SubSeq(s, 1, i - 1), SubSeq(s, i + 1, Len(s))>>

RECURSIVE Split(_, _)
Split(s, sep) ==
    IF \A i \in 1..Len(s) : s[i] # sep THEN <<s>>
    ELSE LET i == CHOOSE i \in 1..Len(s) :
                      s[i] = sep /\ \A j \in 1..(i - 1) : s[j] # sep
         IN  <<SubSeq(s, 1, i - 1)>> \o Split(SubSeq(s, i + 1, Len(s)), sep)

\* `name, value = name_value.split("=")` raises ValueError unless the split
\* has exactly two parts.
Unpacks(s) == Len(Split(s, "=")) = 2

\* name.replace(".", "__")
ReplaceDots(name) ==
    Flatten([i \in 1..Len(name) |->
                IF name[i] = "." THEN <<"_", "_">> ELSE <<name[i]>>])

\* fields.setdefault(name, []).append(value) on an insertion-ordered dict.
SetDefaultAppend(fs, name, value) ==
    IF \E i \in 1..Len(fs) : fs[i].name = name
    THEN [i \in 1..Len(fs) |->
            IF fs[i].name = name
            THEN [fs[i] EXCEPT !.values = Append(@, value)]
            ELSE fs[i]]
    ELSE Append(fs, [name |-> name, values |-> <<value>>])

\* Mutant: a criterion that does not unpack is skipped instead of raising.
RECURSIVE BuildFields_skip(_, _)
BuildFields_skip(fl, acc) ==
    IF fl = <<>> THEN [ok |-> TRUE, fields |-> acc]
    ELSE IF ~Unpacks(Head(fl)) THEN BuildFields_skip(Tail(fl), acc)
    ELSE LET parts == Split(Head(fl), "=")
         IN  BuildFields_skip(Tail(fl),
                 SetDefaultAppend(acc, ReplaceDots(parts[1]), parts[2]))

\* The loop over `field`: the first criterion that does not unpack raises
\* click.BadParameter; otherwise the criteria accumulate in `fields`.
RECURSIVE BuildFields(_, _)
BuildFields(fl, acc) ==
    IF fl = <<>> THEN [ok |-> TRUE, fields |-> acc]
    ELSE IF ~Unpacks(Head(fl)) THEN [ok |-> FALSE, fields |-> acc]
    ELSE LET parts == Split(Head(fl), "=")
         IN  BuildFields(Tail(fl),
                         SetDefaultAppend(acc, ReplaceDots(parts[1]), parts[2]))

ParamHint == "'-f' / '--field'"

(***************************************************************************)
(* Server side: records, pages, error bodies                               *)
(***************************************************************************)
RecA == <<[k |-> "a", v |-> "1"], [k |-> "b", v |-> "2"]>>

RecB == <<[k |-> "b", v |-> "3"], [k |-> "a", v |-> "4"]>>

RecE == <<>>

\* A project holds records of one shape (same key set).
Projects == {{RecE}, {RecA, RecB}}

ErrBodies == {"notjson", "list", "nomessages", "messages_list",
              "messages_nodetail", "detail_empty", "detail"}

OkPages(proj, i) ==
    [ok : {TRUE}, body : {"envelope"},
     data : SeqsUpTo(proj, MaxPageRecs),
     previous : {i > 1},
     next : IF i < MaxPages THEN BOOLEAN ELSE {FALSE}]

ErrPages ==
    [ok : {FALSE}, body : ErrBodies, data : {<<>>},
     previous : {FALSE}, next : {FALSE}]

UndecodablePage(i) ==
    [ok |-> TRUE, body |-> "notjson", data |-> <<>>,
     previous |-> i > 1, next |-> FALSE]

\* The page stream continues while the last page was a success naming a
\* next page.
CanContinue(ps) ==
    IF ps = <<>> THEN TRUE
    ELSE /\ ps[Len(ps)].ok
         /\ ps[Len(ps)].body = "envelope"
         /\ ps[Len(ps)].next

Exhausted(ps) ==
    IF ps = <<>> THEN FALSE
    ELSE /\ ps[Len(ps)].ok
         /\ ps[Len(ps)].body = "envelope"
         /\ ~ps[Len(ps)].next

(***************************************************************************)
(* cli_error: lines 87-100                                                 *)
(***************************************************************************)
IsJson(body) == body # "notjson"

HasMessages(body) ==
    body \in {"messages_list", "messages_nodetail", "detail_empty", "detail"}

CliError(body) ==
    IF ~IsJson(body)
    THEN [exc |-> "ClickException", msg |-> "response.text"]
    ELSE IF body = "list"
    THEN [exc |-> "TypeError", msg |-> ""]
    ELSE IF ~HasMessages(body)
    THEN [exc |-> "KeyError", msg |-> ""]
    ELSE IF body = "messages_list"
    THEN [exc |-> "AttributeError", msg |-> ""]
    ELSE IF body = "detail"
    THEN [exc |-> "ClickException", msg |-> "detail"]
    ELSE [exc |-> "ClickException", msg |-> "dumps(messages)"]

(***************************************************************************)
(* json.dumps(data, indent=4): line 347                                    *)
(***************************************************************************)
Indent == "    "

JsonStr(s) == "\"" \o s \o "\""

RenderMember(p) == <<Indent, Indent, JsonStr(p.k), ":", " ", JsonStr(p.v)>>

RenderRecord(rec) ==
    IF rec = <<>> THEN <<"{", "}">>
    ELSE <<"{", "\n">>
         \o Join([i \in 1..Len(rec) |-> RenderMember(rec[i])], <<",", "\n">>)
         \o <<"\n", Indent, "}">>

RenderData(data) ==
    IF data = <<>> THEN <<"[", "]">>
    ELSE <<"[", "\n">>
         \o Join([i \in 1..Len(data) |-> <<Indent>> \o RenderRecord(data[i])],
                 <<",", "\n">>)
         \o <<"\n", "]">>

(***************************************************************************)
(* JSON fragment stitcher: lines 343-372                                   *)
(***************************************************************************)
ArrayOpen == <<"[", "\n">>

ArrayClose == <<"}", "\n", "]">>

ElementClose == <<"}", ",">>

\* Mutant: the chunk is kept back for a single write at the end of the stream.
Echo_deferred(text) == <<>>

\* typer.echo(text): the text and a newline.
Echo(text) == text \o <<"\n">>

\* Mutant: the prefix is removed without the startswith check.
StripPrefix_unchecked(page, text) ==
    IF page.previous
    THEN [exc |-> "none", text |-> RemovePrefix(text, ArrayOpen)]
    ELSE [exc |-> "none", text |-> text]

StripPrefix(page, text) ==
    IF page.previous
    THEN IF ~StartsWith(text, ArrayOpen)
         THEN [exc |-> "Exception", text |-> text]
         ELSE [exc |-> "none", text |-> RemovePrefix(text, ArrayOpen)]
    ELSE [exc |-> "none", text |-> text]

\* Mutant: the suffix is replaced by "}" without the separating comma.
ReplaceSuffix_nocomma(page, text) ==
    IF page.next
    THEN IF ~EndsWith(text, ArrayClose)
         THEN [exc |-> "Exception", text |-> text]
         ELSE [exc |-> "none",
               text |-> RemoveSuffix(text, ArrayClose) \o <<"}">>]
    ELSE [exc |-> "none", text |-> text]

ReplaceSuffix(page, text) ==
    IF page.next
    THEN IF ~EndsWith(text, ArrayClose)
         THEN [exc |-> "Exception", text |-> text]
         ELSE [exc |-> "none",
               text |-> RemoveSuffix(text, ArrayClose) \o ElementClose]
    ELSE [exc |-> "none", text |-> text]

\* The body of `if result.ok:` for one page.
StitchPage(page) ==
    IF ~IsJson(page.body)
    THEN [exc |-> "ClickException", text |-> <<>>]
    ELSE LET a == StripPrefix(page, RenderData(page.data))
         IN  IF a.exc # "none" THEN a ELSE ReplaceSuffix(page, a.text)

\* Mutant: the next page is requested while the current one is still pending.
CanPull_prefetch(p) == p \in {"json_loop", "json_page"}

\* `for result in results:` resumes the page generator only between two
\* iterations of the loop body.
CanPull(p) == p = "json_loop"

(***************************************************************************)
(* Record stream (OnyxClient.filter) and csv.DictWriter: lines 374-395     *)
(***************************************************************************)
Delimiter(fmt) == IF fmt = "tsv" THEN "\t" ELSE ","

LineTerminator == "\r\n"

\* record.keys()
Keys(rec) == [i \in 1..Len(rec) |-> rec[i].k]

\* rowdict.get(key, restval) with restval = ""
Get(rec, key) ==
    IF \E i \in 1..Len(rec) : rec[i].k = key
    THEN rec[CHOOSE i \in 1..Len(rec) : rec[i].k = key].v
    ELSE ""

\* DictWriter raises ValueError for a key that is not a fieldname.
HasExtras(fieldnames, rec) ==
    \E i \in 1..Len(rec) :
        \A j \in 1..Len(fieldnames) : fieldnames[j] # rec[i].k

\* csv.writer.writerow: the cells joined by the delimiter, then "\r\n".
WriteRow(cells, delim) ==
    Join([i \in 1..Len(cells) |-> <<cells[i]>>], <<delim>>)
    \o <<LineTerminator>>

\* DictWriter.writerow(record)
WriteRecord(fieldnames, rec, delim) ==
    WriteRow([i \in 1..Len(fieldnames) |-> Get(rec, fieldnames[i])], delim)

\* `if record:` on the result of next(records, None); r is <<>> for None and
\* <<record>> otherwise.  An empty mapping is falsy as well.
Truthy(r) == r # <<>> /\ r[1] # <<>>

\* Mutant: the header is written before the record is tested.
FirstOutput_eager(r, delim) ==
    WriteRow(IF r # <<>> THEN Keys(r[1]) ELSE <<>>, delim)
    \o (IF r # <<>> THEN WriteRecord(Keys(r[1]), r[1], delim) ELSE <<>>)

\* Lines 383-390: what the first pull writes.
FirstOutput(r, delim) ==
    IF Truthy(r)
    THEN WriteRow(Keys(r[1]), delim) \o WriteRecord(Keys(r[1]), r[1], delim)
    ELSE <<>>

(***************************************************************************)
(* Field specifications and add_fields: lines 180-199                      *)
(***************************************************************************)
\* The name of the k-th entry of a mapping.
FieldName(k) == "f" \o ToString(k)

TextField(k) ==
    [name |-> FieldName(k), required |-> TRUE, type |-> "text",
     description |-> "free text", values |-> <<>>, fields |-> <<>>]

ChoiceField(k) ==
    [name |-> FieldName(k), required |-> TRUE, type |-> "choice",
     description |-> "", values |-> <<"UK", "FR">>, fields |-> <<>>]

RelationField(k, children) ==
    [name |-> FieldName(k), required |-> FALSE, type |-> "relation",
     description |-> "", values |-> <<>>, fields |-> children]

\* FieldSpecs(n, k): the mappings of n nodes in all whose first entry is the
\* k-th of its parent.  A mapping is the sequence of its entries in order.
RECURSIVE FieldSpecs(_, _)
FieldSpecs(n, k) ==
    IF n = 0 THEN {<<>>}
    ELSE UNION {
           { <<node>> \o rest :
               node \in (IF m = 1
                         THEN {TextField(k), ChoiceField(k),
                               RelationField(k, <<>>)}
                         ELSE {RelationField(k, c) : c \in FieldSpecs(m - 1, 1)}),
               rest \in FieldSpecs(n - m, k + 1) } : m \in 1..n }

AllFieldSpecs == UNION {FieldSpecs(n, 1) : n \in 0..MaxNodes}

\* f"[dim]{prefix}.{field}[/dim]" if prefix else field; prefix <<>> is None.
PathCell(prefix, name) ==
    IF prefix # <<>>
    THEN <<"[dim]">> \o prefix \o <<".", name>> \o <<"[/dim]">>
    ELSE <<name>>

\* Mutant: the child prefix is the field name alone.
ChildPrefix_short(prefix, name) == <<name>>

\* f"{prefix}.{field}" if prefix else field
ChildPrefix(prefix, name) ==
    IF prefix # <<>> THEN prefix \o <<".", name>> ELSE <<name>>

\* ", ".join(values) if values else ""
JoinValues(values) == Join([i \in 1..Len(values) |-> <<values[i]>>], <<", ">>)

FieldRow(fi, prefix) ==
    [field |-> PathCell(prefix, fi.name),
     status |-> IF fi.required THEN "[bold red]required[/]"
                ELSE "[bold cyan]optional[/]",
     type |-> fi.type,
     description |-> fi.description,
     values |-> JoinValues(fi.values)]

RECURSIVE AddFields(_, _, _)
AddFields(tbl, data, prefix) ==
    IF data = <<>> THEN tbl
    ELSE LET fi == Head(data)
             t1 == Append(tbl, FieldRow(fi, prefix))
             t2 == IF fi.type = "relation"
                   THEN AddFields(t1, fi.fields, ChildPrefix(prefix, fi.name))
                   ELSE t1
         IN  AddFields(t2, Tail(data), prefix)

(***************************************************************************)
(* Initial state                                                           *)
(***************************************************************************)
Formats == {"json", "csv", "tsv"}

InitFilter ==
    /\ cmd = "filter"
    /\ format \in Formats
    /\ field \in SeqsUpTo(CritStrings, MaxCrit)
    /\ project \in Projects
    /\ pc = "build"
    /\ tree = <<>>

InitFields ==
    /\ cmd = "fields"
    /\ format = "json"
    /\ field = <<>>
    /\ project = {}
    /\ pc = "fields"
    /\ tree \in AllFieldSpecs

Init ==
    /\ InitFilter \/ InitFields
    /\ fields = <<>>
    /\ nreq = 0
    /\ pulled = <<>>
    /\ written = <<>>
    /\ gen_buf = <<>>
    /\ writer = <<>>
    /\ nrec = 0
    /\ out = <<>>
    /\ outcome = "none"
    /\ msg = ""
    /\ hint = ""
    /\ table = <<>>

(***************************************************************************)
(* Actions of the filter command                                           *)
(***************************************************************************)
\* Lines 321-334: build the criteria, then enter the branch of the format.
BuildCriteria ==
    /\ pc = "build"
    /\ LET b == BuildFields(field, <<>>)
       IN  IF b.ok
           THEN /\ fields' = b.fields
                /\ pc' = IF format = "json" THEN "json_loop" ELSE "csv_first"
                /\ UNCHANGED <<outcome, hint, msg>>
           ELSE /\ outcome' = "BadParameter"
                /\ msg' = "'name=value' syntax was not used"
                /\ hint' = ParamHint
                /\ pc' = "failed"
                /\ UNCHANGED fields
    /\ UNCHANGED <<cmd, format, field, project, nreq, pulled, written,
                   gen_buf, writer, nrec, out, tree, table>>

\* Line 343: the loop pulls the next response from the page generator (one
\* HTTP request).
JsonPull ==
    /\ CanPull(pc)
    /\ CanContinue(pulled)
    /\ \E page \in OkPages(project, Len(pulled) + 1) \cup ErrPages
                   \cup {UndecodablePage(Len(pulled) + 1)} :
          pulled' = Append(pulled, page)
    /\ nreq' = nreq + 1
    /\ pc' = "json_page"
    /\ UNCHANGED <<cmd, format, field, project, fields, written, gen_buf,
                   writer, nrec, out, outcome, msg, hint, tree, table>>

\* Lines 344-372: the loop body for the page just pulled.
JsonPage ==
    /\ pc = "json_page"
    /\ LET i == Len(pulled)
           page == pulled[i]
       IN  IF page.ok
           THEN LET s == StitchPage(page)
                IN  IF s.exc = "none"
                    THEN /\ out' = out \o Echo(s.text)
                         /\ written' = Append(written, i)
                         /\ pc' = "json_loop"
                         /\ UNCHANGED <<outcome, msg>>
                    ELSE /\ outcome' = s.exc
                         /\ msg' = IF s.exc = "ClickException"
                                   THEN "response.text" ELSE "invalid"
                         /\ pc' = "failed"
                         /\ UNCHANGED <<out, written>>
           ELSE /\ outcome' = CliError(page.body).exc
                /\ msg' = CliError(page.body).msg
                /\ pc' = "failed"
                /\ UNCHANGED <<out, written>>
    /\ UNCHANGED <<cmd, format, field, project, fields, nreq, pulled,
                   gen_buf, writer, nrec, hint, tree, table>>

\* The page generator is exhausted: the loop and the command end.
JsonEnd ==
    /\ pc = "json_loop"
    /\ Exhausted(pulled)
    /\ pc' = "done"
    /\ outcome' = "ok"
    /\ UNCHANGED <<cmd, format, field, project, fields, nreq, pulled, written,
                   gen_buf, writer, nrec, out, msg, hint, tree, table>>

\* Inside next(records): the record generator has no buffered record and
\* fetches the next page (one HTTP request).  An error page raises OnyxError,
\* which line 394 hands to cli_error.
RecFetch ==
    /\ pc \in {"csv_first", "csv_rest"}
    /\ gen_buf = <<>>
    /\ CanContinue(pulled)
    /\ \E page \in OkPages(project, Len(pulled) + 1) \cup ErrPages :
          /\ pulled' = Append(pulled, page)
          /\ IF page.ok
             THEN /\ gen_buf' = page.data
                  /\ UNCHANGED <<pc, outcome, msg>>
             ELSE /\ outcome' = CliError(page.body).exc
                  /\ msg' = CliError(page.body).msg
                  /\ pc' = "failed"
                  /\ UNCHANGED gen_buf
    /\ nreq' = nreq + 1
    /\ UNCHANGED <<cmd, format, field, project, fields, written, writer,
                   nrec, out, hint, tree, table>>

\* Lines 382-390: record = next(records, None); header and first row.
CsvFirst ==
    /\ pc = "csv_first"
    /\ gen_buf # <<>> \/ Exhausted(pulled)
    /\ LET r == IF gen_buf # <<>> THEN <<Head(gen_buf)>> ELSE <<>>
       IN  /\ gen_buf' = IF gen_buf # <<>> THEN Tail(gen_buf) ELSE gen_buf
           /\ nrec' = nrec + Len(r)
           /\ out' = out \o FirstOutput(r, Delimiter(format))
           /\ IF Truthy(r)
              THEN /\ writer' = Keys(r[1])
                   /\ pc' = "csv_rest"
                   /\ UNCHANGED outcome
              ELSE /\ pc' = "done"
                   /\ outcome' = "ok"
                   /\ UNCHANGED writer
    /\ UNCHANGED <<cmd, format, field, project, fields, nreq, pulled, written,
                   msg, hint, tree, table>>

\* Lines 392-393: one iteration of `for record in records`.
CsvRow ==
    /\ pc = "csv_rest"
    /\ gen_buf # <<>>
    /\ LET rec == Head(gen_buf)
       IN  IF HasExtras(writer, rec)
           THEN /\ outcome' = "ValueError"
                /\ pc' = "failed"
                /\ UNCHANGED <<out, nrec, gen_buf>>
           ELSE /\ out' = out \o WriteRecord(writer, rec, Delimiter(format))
                /\ nrec' = nrec + 1
                /\ gen_buf' = Tail(gen_buf)
                /\ UNCHANGED <<outcome, pc>>
    /\ UNCHANGED <<cmd, format, field, project, fields, nreq, pulled, written,
                   writer, msg, hint, tree, table>>

\* The record generator is exhausted: the for loop and the command end.
CsvEnd ==
    /\ pc = "csv_rest"
    /\ gen_buf = <<>>
    /\ Exhausted(pulled)
    /\ pc' = "done"
    /\ outcome' = "ok"
    /\ UNCHANGED <<cmd, format, field, project, fields, nreq, pulled, written,
                   gen_buf, writer, nrec, out, msg, hint, tree, table>>

(***************************************************************************)
(* The fields command: lines 217-234                                       *)
(***************************************************************************)
ShowFields ==
    /\ pc = "fields"
    /\ nreq' = nreq + 1
    /\ \E body \in {"ok"} \cup ErrBodies :
          IF body = "ok"
          THEN /\ table' = AddFields(<<>>, tree, <<>>)
               /\ pc' = "done"
               /\ outcome' = "ok"
               /\ UNCHANGED msg
          ELSE /\ outcome' = CliError(body).exc
               /\ msg' = CliError(body).msg
               /\ pc' = "failed"
               /\ UNCHANGED table
    /\ UNCHANGED <<cmd, format, field, project, fields, pulled, written,
                   gen_buf, writer, nrec, out, hint, tree>>

Next ==
    \/ BuildCriteria
    \/ JsonPull
    \/ JsonPage
    \/ JsonEnd
    \/ RecFetch
    \/ CsvFirst
    \/ CsvRow
    \/ CsvEnd
    \/ ShowFields

Spec == Init /\ [][Next]_vars

(***************************************************************************)
(* Vocabulary of the properties                                            *)
(***************************************************************************)
IsFilter == cmd = "filter"

JsonMode == IsFilter /\ format = "json"

CsvMode == IsFilter /\ format # "json"

LastPage == pulled[Len(pulled)]

\* Every record of the pages received, in page order then within-page order.
AllData(ps) == Flatten([i \in 1..Len(ps) |-> ps[i].data])

IsPrefix(s, t) == Len(s) <= Len(t) /\ SubSeq(t, 1, Len(s)) = s

\* A reader of JSON text for arrays of objects with string members: white
\* space is insignificant between tokens, a trailing comma or an unbalanced
\* bracket is an error.
Atoms == {"a", "b", "1", "2", "3", "4"}

IsSpace(t) == t \in {" ", "\n", Indent}

IsStr(t) == \E x \in Atoms : JsonStr(x) = t

Unquote(t) == CHOOSE x \in Atoms : JsonStr(x) = t

At(t, i) == IF i \in 1..Len(t) THEN t[i] ELSE "<eof>"

ParseFail == [ok |-> FALSE, val |-> <<>>, pos |-> 0]

RECURSIVE ParseMembers(_, _, _)
ParseMembers(t, i, acc) ==
    IF IsStr(At(t, i)) /\ At(t, i + 1) = ":" /\ IsStr(At(t, i + 2))
    THEN LET acc2 == Append(acc, [k |-> Unquote(t[i]), v |-> Unquote(t[i + 2])])
         IN  IF At(t, i + 3) = "," THEN ParseMembers(t, i + 4, acc2)
             ELSE IF At(t, i + 3) = "}"
             THEN [ok |-> TRUE, val |-> acc2, pos |-> i + 4]
             ELSE ParseFail
    ELSE ParseFail

ParseObject(t, i) ==
    IF At(t, i) # "{" THEN ParseFail
    ELSE IF At(t, i + 1) = "}" THEN [ok |-> TRUE, val |-> <<>>, pos |-> i + 2]
    ELSE ParseMembers(t, i + 1, <<>>)

RECURSIVE ParseElements(_, _, _)
ParseElements(t, i, acc) ==
    LET o == ParseObject(t, i)
    IN  IF ~o.ok THEN ParseFail
        ELSE IF At(t, o.pos) = ","
        THEN ParseElements(t, o.pos + 1, Append(acc, o.val))
        ELSE IF At(t, o.pos) = "]"
        THEN [ok |-> TRUE, val |-> Append(acc, o.val), pos |-> o.pos + 1]
        ELSE ParseFail

ParseArray(t) ==
    IF At(t, 1) # "[" THEN ParseFail
    ELSE IF At(t, 2) = "]" THEN [ok |-> TRUE, val |-> <<>>, pos |-> 3]
    ELSE ParseElements(t, 2, <<>>)

JsonLoads(text) ==
    LET t == SelectSeq(text, LAMBDA x : ~IsSpace(x))
        r == ParseArray(t)
    IN  IF r.ok /\ r.pos = Len(t) + 1
        THEN [ok |-> TRUE, val |-> r.val]
        ELSE [ok |-> FALSE, val |-> <<>>]

\* The stream is a complete sequence of successful pages, all handled:
\* page i has previous exactly when i > 1 and next exactly when i < N.
SuccessfulStream ==
    /\ JsonMode
    /\ pulled # <<>>
    /\ pc \in {"json_loop", "done", "failed"}
    /\ \A i \in 1..Len(pulled) :
          /\ pulled[i].ok
          /\ pulled[i].body = "envelope"
          /\ pulled[i].previous = (i > 1)
          /\ pulled[i].next = (i < Len(pulled))

NoEmptyPage == \A i \in 1..Len(pulled) : pulled[i].data # <<>>

\* C1 as stated: for every sequence of N >= 1 successful pages with
\* consistent previous/next flags, the text written parses as one JSON array
\* whose elements are the pages' data arrays concatenated in page order.
C1_AnyPages ==
    SuccessfulStream => JsonLoads(out) = [ok |-> TRUE, val |-> AllData(pulled)]

\* C1 as amended: the same, for a single page or for a sequence of pages that
\* each hold at least one record.
C1_StitchedArray ==
    (SuccessfulStream /\ (Len(pulled) > 1 => NoEmptyPage))
        => JsonLoads(out) = [ok |-> TRUE, val |-> AllData(pulled)]

C1_Witness ==
    /\ SuccessfulStream
    /\ pc = "done"
    /\ Len(pulled) = 3
    /\ NoEmptyPage
    /\ Len(pulled[2].data) = 2
    /\ Len(AllData(pulled)) >= 4

\* The chunk expected on output for page i in JSON mode: the rendered data
\* without its opening "[" + newline when the page has a previous page, with
\* "}," in place of its closing "}" + newline + "]" when it has a next page,
\* and the newline that ends the chunk.
Fragment(i) ==
    LET r == RenderData(pulled[i].data)
        a == IF pulled[i].previous THEN SubSeq(r, 3, Len(r)) ELSE r
        b == IF pulled[i].next
             THEN SubSeq(a, 1, Len(a) - 3) \o <<"}", ",">>
             ELSE a
    IN  b \o <<"\n">>

\* The content of page 1 as the format renders it.
CsvText(recs, delim) ==
    IF recs = <<>> THEN <<>>
    ELSE LET cols == [j \in 1..Len(recs[1]) |-> recs[1][j].k]
             Cell(rec, c) ==
                 IF \E j \in 1..Len(rec) : rec[j].k = c
                 THEN rec[CHOOSE j \in 1..Len(rec) : rec[j].k = c].v
                 ELSE ""
             Line(cells) ==
                 [n \in 1..(IF cells = <<>> THEN 1 ELSE 2 * Len(cells)) |->
                     IF cells = <<>> \/ n = 2 * Len(cells) THEN "\r\n"
                     ELSE IF n % 2 = 1 THEN cells[(n + 1) \div 2]
                     ELSE delim]
         IN  Line(cols)
             \o Flatten([i \in 1..Len(recs) |->
                    Line([j \in 1..Len(cols) |-> Cell(recs[i], cols[j])])])

Page1Content ==
    IF format = "json" THEN Fragment(1)
    ELSE CsvText(pulled[1].data, Delimiter(format))

Page2IsError ==
    /\ IsFilter
    /\ Len(pulled) = 2
    /\ pulled[1].ok
    /\ ~pulled[2].ok

\* C2: when page 2 of the stream is an error page, page 1's content is on
\* the output from the moment page 2 arrives, the command then fails, output
\* is only ever appended to, and nothing happens after the failure.
C2_PartialOutputThenError ==
    /\ [](Page2IsError =>
            /\ out = Page1Content
            /\ pc \in {"json_page", "failed"}
            /\ pc = "failed" => outcome \notin {"none", "ok"})
    /\ [][IsPrefix(out, out') /\ pc # "failed"]_vars

C2_Witness ==
    /\ Page2IsError
    /\ JsonMode
    /\ pc = "failed"
    /\ out # <<>>
    /\ out = Fragment(1)

Malformed(s) == \A i \in 1..Len(s) : s[i] # "="

\* C3: once the criteria have been examined, a list holding a string with no
\* '=' has produced the parameter error for -f/--field, with no request
\* issued and nothing written, wherever the string stands in the list.
C3_FailFast ==
    (IsFilter /\ pc # "build" /\ \E i \in 1..Len(field) : Malformed(field[i]))
        => /\ outcome = "BadParameter"
           /\ hint = "'-f' / '--field'"
           /\ pc = "failed"
           /\ nreq = 0
           /\ pulled = <<>>
           /\ out = <<>>

C3_Witness ==
    /\ IsFilter
    /\ outcome = "BadParameter"
    /\ Len(field) = 2
    /\ ~Malformed(field[1])
    /\ Malformed(field[2])
    /\ nreq = 0

\* C4 as stated: in CSV/TSV mode, a non-empty record stream that has been
\* delivered in full is written as one header row of the first record's keys
\* and one row per record in stream order, in the first record's columns.
C4_HeaderAndRows ==
    (CsvMode /\ pc = "done" /\ Exhausted(pulled) /\ AllData(pulled) # <<>>)
        => out = CsvText(AllData(pulled), Delimiter(format))

\* The same for streams whose first record has at least one key.
C4_HeaderAndRowsKeyed ==
    (CsvMode /\ pc = "done" /\ AllData(pulled) # <<>>
        /\ AllData(pulled)[1] # <<>>)
        => /\ Exhausted(pulled)
           /\ out = CsvText(AllData(pulled), Delimiter(format))

\* C5: in CSV/TSV mode nothing is written before a first record has been
\* pulled, and a stream that ends without any record leaves the output empty.
C5_NoHeaderWithoutRecord ==
    CsvMode => /\ nrec = 0 => out = <<>>
               /\ (pc = "done" /\ AllData(pulled) = <<>>) => out = <<>>

C5_Witness ==
    /\ CsvMode
    /\ pc = "done"
    /\ Len(pulled) = 1
    /\ pulled[1].data = <<>>
    /\ ~pulled[1].next
    /\ nrec = 0
    /\ out = <<>>

\* The message C6 names for an error body.
ClaimedMessage(body) ==
    IF body = "detail" THEN "detail"
    ELSE IF HasMessages(body) THEN "dumps(messages)"
    ELSE "response.text"

\* C6 as stated: an error page is always reported as the user-facing CLI
\* error, with messages.detail, else the messages structure pretty-printed,
\* else the raw response text.
C6_AlwaysCliError ==
    (IsFilter /\ pc = "failed" /\ pulled # <<>> /\ ~LastPage.ok)
        => /\ outcome = "ClickException"
           /\ msg = ClaimedMessage(LastPage.body)

UnstitchablePage(page) ==
    /\ page.ok
    /\ page.body = "envelope"
    /\ \/ page.previous /\ ~StartsWith(RenderData(page.data), <<"[", "\n">>)
       \/ page.next /\ ~EndsWith(RenderData(page.data), <<"}", "\n", "]">>)

\* C8: handling a successful page whose rendered text lacks the prefix or
\* suffix its flags call for raises a plain Exception, not the CLI error, and
\* leaves the output as it was.
C8_HardError ==
    [][(JsonMode /\ pc = "json_page" /\ UnstitchablePage(LastPage))
          => /\ outcome' = "Exception"
             /\ pc' = "failed"
             /\ out' = out
             /\ written' = written]_vars

C8_Witness ==
    /\ JsonMode
    /\ pc = "failed"
    /\ outcome = "Exception"
    /\ Len(pulled) = 2
    /\ UnstitchablePage(LastPage)
    /\ LastPage.data = <<>>
    /\ out = Fragment(1)

\* Nodes of a field specification are addressed by index paths: <<2, 1>> is
\* the first child of the second top-level field.
RECURSIVE NodePaths(_)
NodePaths(f) ==
    UNION {{<<i>>} \cup {<<i>> \o q : q \in NodePaths(f[i].fields)} :
             i \in 1..Len(f)}

RECURSIVE NodeAt(_, _)
NodeAt(f, q) ==
    IF Len(q) = 1 THEN f[q[1]] ELSE NodeAt(f[q[1]].fields, Tail(q))

\* Pre-order: a node precedes its descendants, and an earlier sibling's whole
\* subtree precedes a later sibling's.
Precedes(q, r) ==
    \/ Len(q) < Len(r) /\ SubSeq(r, 1, Len(q)) = q
    \/ \E n \in 1..Len(q) :
          /\ n <= Len(r)
          /\ SubSeq(q, 1, n - 1) = SubSeq(r, 1, n - 1)
          /\ q[n] < r[n]

PreOrderRank(f, q) == 1 + Cardinality({r \in NodePaths(f) : Precedes(r, q)})

\* The names from the root down to the node, separated by dots.
RECURSIVE DottedPath(_, _)
DottedPath(f, q) ==
    IF Len(q) = 1 THEN <<f[q[1]].name>>
    ELSE <<f[q[1]].name, ".">> \o DottedPath(f[q[1]].fields, Tail(q))

RECURSIVE CommaSeparated(_)
CommaSeparated(vs) ==
    IF vs = <<>> THEN <<>>
    ELSE IF Len(vs) = 1 THEN <<vs[1]>>
    ELSE <<vs[1], ", ">> \o CommaSeparated(Tail(vs))

\* C7: add_fields emits exactly one row per node, in pre-order; a nested
\* node's path is the dotted path of names from the root, and the values
\* column is the enumerated values joined by ", ".
C7_PreOrderRows ==
    (cmd = "fields" /\ pc = "done") =>
        /\ Len(table) = Cardinality(NodePaths(tree))
        /\ \A q \in NodePaths(tree) :
              LET row == table[PreOrderRank(tree, q)]
                  node == NodeAt(tree, q)
              IN  /\ row.field = IF Len(q) = 1 THEN DottedPath(tree, q)
                                 ELSE <<"[dim]">> \o DottedPath(tree, q)
                                      \o <<"[/dim]">>
                  /\ row.type = node.type
                  /\ row.description = node.description
                  /\ row.status = IF node.required
                                  THEN "[bold red]required[/]"
                                  ELSE "[bold cyan]optional[/]"
                  /\ row.values = CommaSeparated(node.values)

C7_Witness ==
    /\ cmd = "fields"
    /\ pc = "done"
    /\ Len(table) = 3
    /\ table[1].field = <<"f1">>
    /\ table[2].field = <<"f2">>
    /\ table[2].type = "relation"
    /\ table[3].field = <<"[dim]", "f2", ".", "f1", "[/dim]">>
    /\ table[3].values = <<"UK", ", ", "FR">>

CountEq(s) == Cardinality({i \in 1..Len(s) : s[i] = "="})

FirstEq(s) == CHOOSE i \in 1..Len(s) : s[i] = "=" /\ \A j \in 1..(i - 1) : s[j] # "="

BeforeEq(s) == SubSeq(s, 1, FirstEq(s) - 1)

AfterEq(s) == SubSeq(s, FirstEq(s) + 1, Len(s))

RECURSIVE Underscored(_)
Underscored(n) ==
    IF n = <<>> THEN <<>>
    ELSE (IF Head(n) = "." THEN <<"_", "_">> ELSE <<Head(n)>>)
         \o Underscored(Tail(n))

\* The criteria as name/value pairs, split at the first '='.
Criteria == [i \in 1..Len(field) |->
                [name |-> Underscored(BeforeEq(field[i])),
                 value |-> AfterEq(field[i])]]

RECURSIVE ValuesFor(_, _)
ValuesFor(cs, name) ==
    IF cs = <<>> THEN <<>>
    ELSE (IF Head(cs).name = name THEN <<Head(cs).value>> ELSE <<>>)
         \o ValuesFor(Tail(cs), name)

FirstUse(cs, name) == CHOOSE i \in 1..Len(cs) :
                          cs[i].name = name /\ \A j \in 1..(i - 1) : cs[j].name # name

\* fs holds exactly the criteria cs: one entry per name in order of first
\* use, its values in order of appearance.
Holds(fs, cs) ==
    /\ {fs[i].name : i \in 1..Len(fs)} = {cs[i].name : i \in 1..Len(cs)}
    /\ \A i \in 1..Len(fs) : fs[i].values = ValuesFor(cs, fs[i].name)
    /\ \A i, j \in 1..Len(fs) :
          i < j => FirstUse(cs, fs[i].name) < FirstUse(cs, fs[j].name)

\* C9 as stated: every criterion with at least one '=' is accepted, split at
\* the first '=' (the value may contain '='); only a string with no '=' is
\* rejected.
C9_SplitAtFirst ==
    (IsFilter /\ pc # "build")
        => IF \E i \in 1..Len(field) : CountEq(field[i]) = 0
           THEN outcome = "BadParameter"
           ELSE outcome # "BadParameter" /\ Holds(fields, Criteria)

\* C9 as amended: a criterion is accepted exactly when it has one '=', its
\* name the text before it and its value the text after it; a string with no
\* '=' or with more than one is rejected.
C9_ExactlyOne ==
    (IsFilter /\ pc # "build")
        => IF \E i \in 1..Len(field) : CountEq(field[i]) # 1
           THEN outcome = "BadParameter"
           ELSE outcome # "BadParameter" /\ Holds(fields, Criteria)

C9_Witness ==
    /\ IsFilter
    /\ pc \notin {"build", "failed"}
    /\ Len(field) = 2
    /\ Len(fields) = 1
    /\ Len(fields[1].values) = 2
    /\ fields[1].name = <<"_", "_">>

\* C10: in JSON mode at most one received page is unwritten at any moment,
\* pages are written in the order received, and the output is exactly the
\* fragments of the written pages in that order.
C10_OnePageAtATime ==
    JsonMode =>
        /\ Len(pulled) - Len(written) <= 1
        /\ \A k \in 1..Len(written) : written[k] = k
        /\ out = Flatten([k \in 1..Len(written) |-> Fragment(written[k])])
        /\ nreq = Len(pulled)

C10_Witness ==
    /\ JsonMode
    /\ pc = "json_page"
    /\ Len(pulled) = 3
    /\ written = <<1, 2>>

====
